---- MODULE Spec2Model ----
(***************************************************************************)
(* Versioned meta values and term content of metahub: the append-only      *)
(* version chain written by app/services/meta_value_service.py and         *)
(* app/services/term_service.py, run inside the transaction scope of       *)
(* app/core/database.py (transactional) and app/core/deps.py (get_session).*)
(*                                                                         *)
(* Storage is modelled as a committed state plus one overlay of staged     *)
(* writes per session (read committed: a session reads the committed state *)
(* and its own staged writes).  with_for_update is a row lock held until   *)
(* the session commits, rolls back or closes; a unique constraint makes an *)
(* insert wait for a concurrent uncommitted insert of the same key and     *)
(* fail once that key is committed.                                        *)
(***************************************************************************)
EXTENDS Naturals, Sequences, FiniteSets, TLC

VARIABLES
    db,        \* committed rows and versions
    tx,        \* per flow: writes staged on the session the body runs on
    locks,     \* row locks: <<table, id, flow>>
    now,       \* the latest reading of the clock (utcnow)
    pc,        \* per flow: position in the call
    call,      \* per flow: the request and the wrapper's locals
    loc,       \* per flow: the body's locals (mv, version_no, v)
    res,       \* per flow: outcome of the call so far
    calls,     \* number of calls started
    hist,      \* per entity: the successful committed writes (history)
    domain_mode, \* selection_mode of the custom_meta_item row of "domain"
    current,   \* per call chain: the value of the context variable _current_session
    stack,     \* per call chain: the wrapper and get_session frames in progress
    sessions,  \* the sessions: state, creating chain, staged writes
    committed, \* the writes committed by the sessions of the call chains
    mode,      \* per call chain: running, or an error or a cancellation unwinding
    begun,     \* number of frames begun
    label,     \* per code and term: its label_default / display_name
    read       \* the latest read: what was asked and what came back

vars == <<db, tx, locks, now, pc, call, loc, res, calls, hist, domain_mode,
          current, stack, sessions, committed, mode, begun, label, read>>

\* the reference data and the reader
env == <<domain_mode, label, read>>

\* the version chain and its flows
chain == <<db, tx, locks, now, pc, call, loc, res, calls, hist>>

\* the nested transaction scopes of the call chains
scope == <<current, stack, sessions, committed, mode, begun>>

---------------------------------------------------------------------------
(* Bounds *)

MaxCalls == 2
MaxSeqCalls == 2
MaxClock == 3
MaxDepth == 2
MaxScopes == 2

Writers == {"w1", "w2"}

Flows == {"c1", "c2"}

---------------------------------------------------------------------------
(* Values *)

None == <<>>
Some(x) == <<x>>

NoId == 0
NoTime == 0

\* json.dumps / json.loads: a text is kept apart from the object it encodes
dumps(obj) == <<obj>>
loads(text) == text[1]

\* dict.get(key, default)
Get(data, k, default) == IF k \in DOMAIN data THEN data[k] ELSE default

Max(S) == CHOOSE x \in S : \A y \in S : y <= x

---------------------------------------------------------------------------
(* Reference data: the type registry, the item rows, codes and terms *)

\* MetaTypeKind of each item of SYSTEM_META_ITEMS
SYSTEM_META_ITEMS ==
    [retention_days    |-> "PRIMITIVE",
     table_description |-> "STRING",
     pii_level         |-> "CODESET",
     domain            |-> "TAXONOMY"]

\* get_meta_item_type_kind: the kind, or "ValueError" for an unknown code
get_meta_item_type_kind(item_code) ==
    IF item_code \in DOMAIN SYSTEM_META_ITEMS
    THEN SYSTEM_META_ITEMS[item_code]
    ELSE "ValueError"

\* custom_meta_item rows (bootstrap_demo creates one per registry item; the
\* item endpoint stores the selection_mode it is given)
CustomMetaItem ==
    {[item_id |-> "i_ret", item_code |-> "retention_days",    selection_mode |-> "SINGLE"],
     [item_id |-> "i_dsc", item_code |-> "table_description", selection_mode |-> "SINGLE"],
     [item_id |-> "i_pii", item_code |-> "pii_level",         selection_mode |-> "SINGLE"],
     [item_id |-> "i_dom", item_code |-> "domain",            selection_mode |-> domain_mode]}

\* the labels bootstrap_demo gives the codes and the terms
BootLabels ==
    [c_pub |-> "Public", c_res |-> "Restricted", c_lic |-> "Restricted use",
     t_fin |-> "Finance", t_hr |-> "Human Resources"]

\* cm_code rows: code_key is unique per codeset only (uq_code_key_per_set);
\* label_default is that of the code's current version
Code ==
    {[code_id |-> "c_pub", codeset_id |-> "PII_LEVEL", code_key |-> "PUBLIC",
      label_default |-> label["c_pub"]],
     [code_id |-> "c_res", codeset_id |-> "PII_LEVEL", code_key |-> "RESTRICTED",
      label_default |-> label["c_res"]],
     [code_id |-> "c_lic", codeset_id |-> "LICENSE",   code_key |-> "RESTRICTED",
      label_default |-> label["c_lic"]]}

\* tx_term rows: term_key is unique per taxonomy only (uq_term_key_per_taxonomy)
Term ==
    {[term_id |-> "t_fin", taxonomy_id |-> "DATA_DOMAIN", term_key |-> "FIN",
      display_name |-> label["t_fin"]],
     [term_id |-> "t_hr",  taxonomy_id |-> "DATA_DOMAIN", term_key |-> "HR",
      display_name |-> label["t_hr"]]}

\* scalar_one_or_none over a result set
scalar_one_or_none(S) ==
    IF Cardinality(S) > 1 THEN [err |-> "MultipleResultsFound", hit |-> {}]
    ELSE [err |-> "none", hit |-> S]

\* Code by id, or else by key in any codeset (set_meta_value_codeset)
ResolveCode(k) ==
    LET byId == scalar_one_or_none({c \in Code : c.code_id = k})
    IN  IF byId.hit # {} THEN byId
        ELSE scalar_one_or_none({c \in Code : c.code_key = k})

\* Term by id, or else by key in any taxonomy (set_meta_value_taxonomy_*)
ResolveTerm(k) ==
    LET byId == scalar_one_or_none({t \in Term : t.term_id = k})
    IN  IF byId.hit # {} THEN byId
        ELSE scalar_one_or_none({t \in Term : t.term_key = k})

EntityOf(S) == CHOOSE x \in S : TRUE

---------------------------------------------------------------------------
(* The setters' validation and payload construction.  A plan is what the   *)
(* body has decided before it touches the entity row: the error it raises, *)
(* or the entity key and the columns of the version it is going to insert. *)

Null == "null"

Reject(e) == [err |-> e, key |-> <<>>, payload |-> [value_json |-> None, value_json_v2 |-> None],
              author |-> Null, reason |-> Null]

Accept(k, p, a, r) == [err |-> "none", key |-> k, payload |-> p, author |-> a, reason |-> r]

ItemRows(item_code) == {i \in CustomMetaItem : i.item_code = item_code}

ValueKey(req, item) == <<req.target_type, req.target_id, item.item_id>>

V2(obj) == [value_json |-> None, value_json_v2 |-> dumps(obj)]

\* item checks that do not compare the kind
TypedItemCheckAnyKind(req, kind) ==
    IF get_meta_item_type_kind(req.item_code) = "ValueError" THEN "ItemNotFound"
    ELSE IF ItemRows(req.item_code) = {} THEN "ItemNotInDatabase"
    ELSE "none"

\* the registry and item-row checks shared by the typed setters
TypedItemCheck(req, kind) ==
    IF get_meta_item_type_kind(req.item_code) = "ValueError" THEN "ItemNotFound"
    ELSE IF get_meta_item_type_kind(req.item_code) # kind THEN "TypeMismatch"
    ELSE IF ItemRows(req.item_code) = {} THEN "ItemNotInDatabase"
    ELSE "none"

set_meta_value_primitive(req) ==
    LET e == TypedItemCheck(req, "PRIMITIVE")
    IN  IF e # "none" THEN Reject(e)
        ELSE Accept(ValueKey(req, EntityOf(ItemRows(req.item_code))),
                    V2([type |-> "PRIMITIVE", value |-> req.value]),
                    req.author, req.reason)

set_meta_value_string(req) ==
    LET e == TypedItemCheck(req, "STRING")
    IN  IF e # "none" THEN Reject(e)
        ELSE Accept(ValueKey(req, EntityOf(ItemRows(req.item_code))),
                    V2([type |-> "STRING", value |-> req.value]),
                    req.author, req.reason)

set_meta_value_codeset(req) ==
    LET e == TypedItemCheck(req, "CODESET")
        code == ResolveCode(req.key)
    IN  IF e # "none" THEN Reject(e)
        ELSE IF code.err # "none" THEN Reject(code.err)
        ELSE IF code.hit = {} THEN Reject("ReferenceNotFound")
        ELSE Accept(ValueKey(req, EntityOf(ItemRows(req.item_code))),
                    V2([type |-> "CODESET",
                        code_id |-> EntityOf(code.hit).code_id,
                        code_key |-> EntityOf(code.hit).code_key]),
                    Null, Null)

set_meta_value_taxonomy_single(req) ==
    LET e == TypedItemCheck(req, "TAXONOMY")
        term == ResolveTerm(req.key)
    IN  IF e # "none" THEN Reject(e)
        ELSE IF EntityOf(ItemRows(req.item_code)).selection_mode # "SINGLE"
             THEN Reject("SelectionModeMismatch")
        ELSE IF term.err # "none" THEN Reject(term.err)
        ELSE IF term.hit = {} THEN Reject("ReferenceNotFound")
        ELSE Accept(ValueKey(req, EntityOf(ItemRows(req.item_code))),
                    V2([type |-> "TAXONOMY", selection_mode |-> "SINGLE",
                        term_keys |-> <<EntityOf(term.hit).term_key>>]),
                    Null, Null)

\* the first of the lookups, in list order, that finds no single term; 0 if
\* all do
FirstBadTerm(lookups) ==
    LET bad == {i \in 1..Len(lookups) : lookups[i].err # "none" \/ lookups[i].hit = {}}
    IN  IF bad = {} THEN 0 ELSE CHOOSE i \in bad : \A j \in bad : i <= j

TermError(r) == IF r.err # "none" THEN r.err ELSE "ReferenceNotFound"

set_meta_value_taxonomy_multi(req) ==
    LET e == TypedItemCheck(req, "TAXONOMY")
        bad == FirstBadTerm([i \in 1..Len(req.keys) |-> ResolveTerm(req.keys[i])])
    IN  IF e # "none" THEN Reject(e)
        ELSE IF EntityOf(ItemRows(req.item_code)).selection_mode # "MULTI"
             THEN Reject("SelectionModeMismatch")
        ELSE IF bad # 0 THEN Reject(TermError(ResolveTerm(req.keys[bad])))
        ELSE Accept(ValueKey(req, EntityOf(ItemRows(req.item_code))),
                    V2([type |-> "TAXONOMY", selection_mode |-> "MULTI",
                        term_keys |-> [i \in 1..Len(req.keys) |->
                                         EntityOf(ResolveTerm(req.keys[i]).hit).term_key]]),
                    Null, Null)

\* unified setter: lookups by key only
CodeByKey(k) == scalar_one_or_none({c \in Code : c.code_key = k})
TermByKey(k) == scalar_one_or_none({t \in Term : t.term_key = k})

\* _validate_unified_value_data: the error it raises, or "none"
validate_unified_value_data(value_data) ==
    LET value_type == value_data.type
    IN  IF value_type \in {"PRIMITIVE", "STRING"}
        THEN IF "value" \notin DOMAIN value_data THEN "MalformedValue" ELSE "none"
        ELSE IF value_type = "CODESET"
        THEN IF "code_key" \notin DOMAIN value_data THEN "MalformedValue"
             ELSE IF CodeByKey(value_data.code_key).err # "none"
                  THEN CodeByKey(value_data.code_key).err
             ELSE IF CodeByKey(value_data.code_key).hit = {} THEN "ReferenceNotFound"
             ELSE "none"
        ELSE IF value_type = "TAXONOMY"
        THEN IF "term_keys" \notin DOMAIN value_data THEN "MalformedValue"
             ELSE LET selection_mode == Get(value_data, "selection_mode", "SINGLE")
                      bad == FirstBadTerm([i \in 1..Len(value_data.term_keys) |->
                                                TermByKey(value_data.term_keys[i])])
                  IN  IF selection_mode = "SINGLE" /\ Len(value_data.term_keys) # 1
                      THEN "SelectionModeMismatch"
                      ELSE IF selection_mode = "MULTI" /\ Len(value_data.term_keys) = 0
                      THEN "SelectionModeMismatch"
                      ELSE IF bad # 0 THEN TermError(TermByKey(value_data.term_keys[bad]))
                      ELSE "none"
        ELSE "none"

\* _enrich_value_data, for value data that passed validation
enrich_value_data(value_data) ==
    IF value_data.type = "CODESET"
    THEN LET code == EntityOf(CodeByKey(value_data.code_key).hit)
         IN  [code_id |-> code.code_id, code_key |-> code.code_key,
              code_label |-> code.label_default, codeset_code |-> code.codeset_id]
             @@ value_data
    ELSE IF value_data.type = "TAXONOMY"
    THEN [terms |-> [i \in 1..Len(value_data.term_keys) |->
                       LET term == EntityOf(TermByKey(value_data.term_keys[i]).hit)
                       IN  [term_id |-> term.term_id, term_key |-> term.term_key,
                            display_name |-> term.display_name,
                            taxonomy_code |-> term.taxonomy_id]],
          selection_mode |-> Get(value_data, "selection_mode", "SINGLE")]
         @@ value_data
    ELSE value_data

set_meta_value_unified(req) ==
    LET value_data == req.data
        kind == get_meta_item_type_kind(req.item_code)
    IN  IF kind = "ValueError" THEN Reject("ItemNotFound")
        ELSE IF ItemRows(req.item_code) = {} THEN Reject("ItemNotInDatabase")
        ELSE IF "type" \notin DOMAIN value_data THEN Reject("MalformedValue")
        ELSE IF value_data.type # kind THEN Reject("TypeMismatch")
        ELSE IF validate_unified_value_data(value_data) # "none"
             THEN Reject(validate_unified_value_data(value_data))
        ELSE Accept(ValueKey(req, EntityOf(ItemRows(req.item_code))),
                    [value_json |-> dumps(enrich_value_data(value_data)),
                     value_json_v2 |-> None],
                    req.author, req.reason)

\* upsert_term_content: no check of its own; the container is per term
upsert_term_content(req) ==
    Accept(<<"term", req.key>>,
           [body_markdown |-> req.value, body_json |-> None],
           req.author, req.reason)

\* an endpoint that calls the service for whatever term id it is given
put_term_content_unchecked(req) == upsert_term_content(req)

\* put_term_content: 404 "term not found" unless session.get finds the term
put_term_content(req) ==
    IF {t \in Term : t.term_id = req.key} = {} THEN Reject("EntityNotFound")
    ELSE upsert_term_content(req)

\* MetaValueBusinessService.set_primitive_value: the registry lookup is not
\* guarded, the text goes to value_json, author and reason are recorded
set_primitive_value(req) ==
    IF get_meta_item_type_kind(req.item_code) = "ValueError" THEN Reject("ValueError")
    ELSE IF get_meta_item_type_kind(req.item_code) # "PRIMITIVE" THEN Reject("TypeMismatch")
    ELSE IF ItemRows(req.item_code) = {} THEN Reject("ItemNotFound")
    ELSE Accept(ValueKey(req, EntityOf(ItemRows(req.item_code))),
                [value_json |-> dumps(req.value), value_json_v2 |-> None],
                req.author, req.reason)

\* the body selected by the request
Plan(req) ==
    CASE req.op = "primitive"  -> set_meta_value_primitive(req)
      [] req.op = "biz_primitive" -> set_primitive_value(req)
      [] req.op = "string"     -> set_meta_value_string(req)
      [] req.op = "codeset"    -> set_meta_value_codeset(req)
      [] req.op = "tax_single" -> set_meta_value_taxonomy_single(req)
      [] req.op = "tax_multi"  -> set_meta_value_taxonomy_multi(req)
      [] req.op = "unified"    -> set_meta_value_unified(req)
      [] req.op = "term"       -> put_term_content(req)


---------------------------------------------------------------------------
(* Storage: committed state, staged writes, locks *)

EmptyTx == [rows |-> {}, vers |-> {}]

RowIds(rows) == {r.value_id : r \in rows}
VerIds(vers) == {v.version_id : v \in vers}

\* what a session reads: the committed state under its own staged writes
View(d, t) ==
    [rows |-> {r \in d.rows : r.value_id \notin RowIds(t.rows)} \cup t.rows,
     vers |-> {v \in d.vers : v.version_id \notin VerIds(t.vers)} \cup t.vers]

\* a commit that keeps only what the session staged
CommitStagedOnly(d, t) == t

\* session.commit(): the staged inserts and updates become the committed state
Commit(d, t) == View(d, t)

\* a rollback that leaves the staged writes on the session
RollbackNothing(t) == t

\* session.rollback(): the staged writes are dropped
Rollback(t) == EmptyTx

\* uncommitted inserts that no other session waits for
NewRowsUnseen(d, t) == {}

\* the rows a flow inserted and has not committed
NewRows(d, t) == {r \in t.rows : r.value_id \notin RowIds(d.rows)}
NewVers(d, t) == {v \in t.vers : v.version_id \notin VerIds(d.vers)}

HeldByOther(w, table, id) == \E o \in Writers \ {w} : <<table, id, o>> \in locks

\* an end of transaction that leaves the session's locks in place
ReleaseNone(w) == locks

\* the end of a transaction releases the locks of its session
Release(w) == {l \in locks : l[3] # w}

\* the numbering without the "+ 1"
version_no_from_zero(view, value_id) ==
    LET nos == {v.version_no : v \in {x \in view.vers : x.value_id = value_id}}
    IN  IF nos = {} THEN 0 ELSE Max(nos) + 1

\* _next_version_no: coalesce(max(version_no), 0) + 1 over the visible versions
next_version_no(view, value_id) ==
    LET nos == {v.version_no : v \in {x \in view.vers : x.value_id = value_id}}
    IN  (IF nos = {} THEN 0 ELSE Max(nos)) + 1

---------------------------------------------------------------------------
(* The read path *)

\* a fallback that reads the column the typed setters leave empty
migrate_from_value_json(version, item) ==
    IF version.payload.value_json # None
    THEN Some(loads(version.payload.value_json))
    ELSE None

\* _migrate_legacy_data_on_demand: the unified shape of a value_json_v2 text
migrate_legacy_data_on_demand(version, item) ==
    LET item_type_kind == get_meta_item_type_kind(item.item_code)
        text == version.payload.value_json_v2
    IN  IF text = None THEN None
        ELSE LET data == loads(text)
             IN  CASE item_type_kind = "PRIMITIVE" ->
                        Some([type |-> "PRIMITIVE", value |-> Get(data, "value", Null)])
                   [] item_type_kind = "STRING" ->
                        Some([type |-> "STRING", value |-> Get(data, "value", "")])
                   [] item_type_kind = "CODESET" ->
                        Some([type |-> "CODESET",
                              code_id |-> Get(data, "code_id", Null),
                              code_key |-> Get(data, "code_key", Null),
                              code_label |-> Get(data, "code_label", Null),
                              codeset_code |-> Get(data, "codeset_code", Null)])
                   [] item_type_kind = "TAXONOMY" ->
                        Some([type |-> "TAXONOMY",
                              selection_mode |-> Get(data, "selection_mode", "SINGLE"),
                              term_keys |-> Get(data, "term_keys", <<>>),
                              terms |-> Get(data, "terms", <<>>)])
                   [] OTHER -> None

\* get_meta_value_unified on what a session reads: Some(payload) or None
get_meta_value_unified(view, target_type, target_id, item_code) ==
    LET items == ItemRows(item_code)
    IN  IF items = {} THEN None
        ELSE LET item == EntityOf(items)
                 mvs == {r \in view.rows : r.key = <<target_type, target_id, item.item_id>>}
             IN  IF mvs = {} \/ EntityOf(mvs).current_version_id = NoId THEN None
                 ELSE LET versions == {v \in view.vers :
                                         v.version_id = EntityOf(mvs).current_version_id}
                      IN  IF versions = {} THEN None
                          ELSE IF EntityOf(versions).payload.value_json # None
                          THEN Some(loads(EntityOf(versions).payload.value_json))
                          ELSE migrate_legacy_data_on_demand(EntityOf(versions), item)

\* the code_id and taxonomy_term_id columns of a version: no setter of
\* meta_value_service.py assigns them
code_id_of(version) == None
taxonomy_term_id_of(version) == None

\* the current version of the row, as the read endpoints select it
CurrentVersions(view, mv) ==
    IF mv.current_version_id = NoId THEN {}
    ELSE {v \in view.vers : v.version_id = mv.current_version_id}

\* an endpoint that answers 404 for an entity without a current version
get_meta_value_requiring_version(view, target_type, target_id, item_code) ==
    LET vs == {v \in view.vers :
                 \E r \in view.rows : /\ r.key[1] = target_type /\ r.key[2] = target_id
                                       /\ r.current_version_id = v.version_id}
    IN  IF ItemRows(item_code) = {} THEN [err |-> "ItemNotFound", value |-> None]
        ELSE IF vs = {} THEN [err |-> "ValueNotFound", value |-> None]
        ELSE [err |-> "none", value |-> Some(EntityOf(vs).version_id)]

\* get_meta_value_for_target_and_item (the endpoint): 404 for an unknown
\* item and for a missing row, else the row with current_version or None
get_meta_value_for_target_and_item(view, target_type, target_id, item_code) ==
    LET items == ItemRows(item_code)
    IN  IF items = {} THEN [err |-> "ItemNotFound", value |-> None]
        ELSE LET item == EntityOf(items)
                 kind == get_meta_item_type_kind(item.item_code)
                 mvs == {r \in view.rows : r.key = <<target_type, target_id, item.item_id>>}
             IN  IF mvs = {} THEN [err |-> "ValueNotFound", value |-> None]
                 ELSE IF CurrentVersions(view, EntityOf(mvs)) = {}
                 THEN [err |-> "none", value |-> None]
                 ELSE LET v == EntityOf(CurrentVersions(view, EntityOf(mvs)))
                          codes == {c \in Code : Some(c.code_id) = code_id_of(v)}
                          terms == {t \in Term : Some(t.term_id) = taxonomy_term_id_of(v)}
                      IN  [err |-> "none",
                           value |-> Some(
                             [version_id |-> v.version_id,
                              version_no |-> v.version_no,
                              value_json |-> IF kind = "PRIMITIVE" THEN v.payload.value_json
                                             ELSE None,
                              code_label |-> IF kind = "CODESET" /\ codes # {}
                                             THEN EntityOf(codes).label_default ELSE Null,
                              term_display_name |-> IF kind = "TAXONOMY" /\ terms # {}
                                                    THEN EntityOf(terms).display_name
                                                    ELSE Null])]

\* a conversion that stores its result in the version it read
migration_written_back(version, data) ==
    {[version EXCEPT !.payload.value_json = dumps(data)]}

\* the version rows _migrate_legacy_data_on_demand changes: it builds a dict
\* and assigns nothing
migration_writes(version, data) == {}

\* what a read through get_meta_value_unified leaves staged on its session
StagedByRead(view, target_type, target_id, item_code) ==
    LET mvs == IF ItemRows(item_code) = {} THEN {}
               ELSE {r \in view.rows :
                       r.key = <<target_type, target_id, EntityOf(ItemRows(item_code)).item_id>>}
        vs == IF mvs = {} THEN {} ELSE CurrentVersions(view, EntityOf(mvs))
    IN  IF vs = {} \/ EntityOf(vs).payload.value_json # None THEN {}
        ELSE LET data == migrate_legacy_data_on_demand(EntityOf(vs), EntityOf(ItemRows(item_code)))
             IN  IF data = None THEN {} ELSE migration_writes(EntityOf(vs), data[1])

\* which of the cases of a read the tables present for the item
ReadCase(view, target_type, target_id, item_code) ==
    LET items == ItemRows(item_code)
        mvs == IF items = {} THEN {}
               ELSE {r \in view.rows :
                       r.key = <<target_type, target_id, EntityOf(items).item_id>>}
    IN  IF items = {} THEN "no_item"
        ELSE IF mvs = {} THEN "no_row"
        ELSE IF EntityOf(mvs).current_version_id = NoId THEN "no_version"
        ELSE "current"

---------------------------------------------------------------------------
(* The transaction scope *)

Propagations == {"required", "requires_new", "nested"}

\* a wrapper that joins whenever a session is active
use_new_only_if_none(propagation, read_only, existing) == ~existing

\* transactional.wrapper: whether the call creates its own session
use_new(propagation, read_only, existing) ==
    \/ propagation = "requires_new"
    \/ ~existing
    \/ (read_only /\ propagation = "required" /\ existing)

NoReq == [op |-> "none"]
NoCall == [req |-> NoReq, ctx |-> "none", created_here |-> FALSE, savepoint |-> FALSE]
NoLoc == [value_id |-> NoId, current_version_id |-> NoId, version_no |-> 0, version_id |-> NoId]
NoRes == [outcome |-> "none", err |-> "none", ret |-> NoId]

\* upsert_term_content is a plain function on the caller's session
HasWrapper(req) == req.op # "term"

\* where an exception raised in the body lands
RaisedPc(req) == IF HasWrapper(req) THEN "raised" ELSE "caller"

\* where control is once the wrapper has handed back
AfterCallPc(ctx) == IF ctx = "request" THEN "caller" ELSE "idle"

Raise(w, e) ==
    /\ pc' = [pc EXCEPT ![w] = RaisedPc(call[w].req)]
    /\ res' = [res EXCEPT ![w] = [outcome |-> "error", err |-> e, ret |-> NoId]]

NoHist == [n |-> 0, version_id |-> NoId, req |-> NoReq]

\* history: one more successful committed write to the entity
Recorded(h, w) ==
    LET k == Plan(call[w].req).key
    IN  IF k \in DOMAIN h
        THEN [h EXCEPT ![k] = [n |-> h[k].n + 1, version_id |-> res[w].ret, req |-> call[w].req]]
        ELSE h

\* new_uuid(): an identifier no row, staged row or local holds
UsedIds ==
    RowIds(db.rows) \cup VerIds(db.vers)
    \cup UNION {RowIds(tx[w].rows) \cup VerIds(tx[w].vers) : w \in Writers}
    \cup {loc[w].value_id : w \in Writers} \cup {loc[w].version_id : w \in Writers}
    \cup {res[w].ret : w \in Writers} \cup {NoId}

new_uuid == CHOOSE i \in 1..(Cardinality(UsedIds) + 1) : i \notin UsedIds

\* utcnow(): the clock never runs backwards
utcnow == {t \in {now, now + 1} : t <= MaxClock}

---------------------------------------------------------------------------
(* Requests *)

Targets == {<<"table", "orders">>}

AllKeys ==
    {<<t[1], t[2], i.item_id>> : t \in Targets, i \in CustomMetaItem}
    \cup {<<"term", t.term_id>> : t \in Term}

NoData == [none |-> "none"]

Req(op, item_code, value, key, keys, data) ==
    [op |-> op, target_type |-> "table", target_id |-> "orders", item_code |-> item_code,
     value |-> value, key |-> key, keys |-> keys, data |-> data,
     author |-> "alice", reason |-> "audit"]

\* the requests of the concurrent flows
Requests ==
    { Req("primitive",  "retention_days", "days30", "", <<>>, NoData),
      Req("primitive",  "retention_days", "days60", "", <<>>, NoData),
      Req("primitive",  "no_such_item",   "days30", "", <<>>, NoData),
      Req("term",       "",               "body1", "t_fin", <<>>, NoData) }

\* the requests of the single flow
SeqRequests ==
    { Req("primitive",  "retention_days", "days30", "", <<>>, NoData),
      Req("primitive",  "retention_days", "days60", "", <<>>, NoData),
      Req("primitive",  "pii_level",      "days30", "", <<>>, NoData),
      Req("primitive",  "no_such_item",   "days30", "", <<>>, NoData),
      Req("string",     "table_description", "text1", "", <<>>, NoData),
      Req("codeset",    "pii_level", "", "PUBLIC",     <<>>, NoData),
      Req("codeset",    "pii_level", "", "c_res",      <<>>, NoData),
      Req("codeset",    "pii_level", "", "RESTRICTED", <<>>, NoData),
      Req("codeset",    "pii_level", "", "NOT_A_CODE", <<>>, NoData),
      Req("tax_single", "domain",    "", "FIN",        <<>>, NoData),
      Req("tax_single", "domain",    "", "NOT_A_TERM", <<>>, NoData),
      Req("tax_multi",  "domain",    "", "", <<"FIN", "HR">>, NoData),
      Req("tax_multi",  "domain",    "", "", <<>>, NoData),
      Req("unified",    "domain",    "", "", <<>>,
          [type |-> "TAXONOMY", selection_mode |-> "MULTI", term_keys |-> <<"FIN", "HR">>]),
      Req("unified",    "domain",    "", "", <<>>,
          [type |-> "TAXONOMY", selection_mode |-> "MULTI", term_keys |-> <<>>]),
      Req("unified",    "retention_days", "", "", <<>>, [type |-> "PRIMITIVE", value |-> "days60"]),
      Req("unified",    "pii_level", "", "", <<>>, [type |-> "CODESET", code_key |-> "PUBLIC"]),
      Req("unified",    "pii_level", "", "", <<>>, [type |-> "CODESET", code_key |-> "NOT_A_CODE"]),
      Req("unified",    "pii_level", "", "", <<>>, [type |-> "STRING", value |-> "text1"]),
      Req("unified",    "domain",    "", "", <<>>,
          [type |-> "TAXONOMY", selection_mode |-> "SINGLE", term_keys |-> <<"FIN", "HR">>]),
      Req("unified",    "domain",    "", "", <<>>,
          [type |-> "TAXONOMY", selection_mode |-> "SINGLE", term_keys |-> <<"HR">>]),
      Req("term",       "",          "body1", "t_fin", <<>>, NoData) }

\* a write through MetaValueBusinessService and one through the setter of
\* meta_value_service, to the same entity
BizRequests ==
    { Req("biz_primitive", "retention_days", "days60", "", <<>>, NoData),
      Req("primitive",     "retention_days", "days30", "", <<>>, NoData),
      Req("term",          "",               "body1", "t_fin", <<>>, NoData) }

\* the writes of the concurrent flows under fair scheduling: one entity
\* of each kind
LiveRequests ==
    { Req("primitive",  "retention_days", "days60", "", <<>>, NoData),
      Req("term",       "",               "body1", "t_fin", <<>>, NoData) }

\* requests with more than one defect, and references given by id
ValRequests ==
    { Req("codeset",    "pii_level", "", "PUBLIC", <<>>, NoData),
      Req("codeset",    "pii_level", "", "c_pub",  <<>>, NoData),
      Req("tax_single", "domain",    "", "t_fin",  <<>>, NoData),
      Req("tax_single", "pii_level", "", "NOT_A_TERM", <<>>, NoData),
      Req("unified",    "pii_level", "", "", <<>>, [type |-> "CODESET", code_key |-> "c_pub"]),
      Req("unified",    "no_such_item", "", "", <<>>,
          [type |-> "CODESET", code_key |-> "NOT_A_CODE"]),
      Req("unified",    "domain",    "", "", <<>>,
          [type |-> "TAXONOMY", selection_mode |-> "SINGLE",
           term_keys |-> <<"NOT_A_TERM", "FIN">>]),
      Req("unified",    "domain",    "", "", <<>>,
          [type |-> "TAXONOMY", selection_mode |-> "MULTI",
           term_keys |-> <<"FIN", "NOT_A_TERM">>]),
      Req("term",       "",          "body1", "t_fin",  <<>>, NoData),
      Req("term",       "",          "body1", "t_nope", <<>>, NoData) }

\* the writes whose values are read back
ReadRequests ==
    { Req("codeset",    "pii_level", "", "PUBLIC", <<>>, NoData),
      Req("unified",    "pii_level", "", "", <<>>, [type |-> "CODESET", code_key |-> "PUBLIC"]) }

\* the item codes a read asks for
ReadItems == {"pii_level", "domain", "no_such_item"}

\* the codes whose label is changed, and the label they get
NewLabels == [c_pub |-> "Open"]

---------------------------------------------------------------------------
(* Nested transaction scopes: sessions, the context variable, frames *)

NoSession == 0

SessionIds == 1..(Cardinality(Flows) * MaxDepth)

\* a session nobody holds
FreeSession == [state |-> "free", flow |-> "none", staged |-> {}]

\* AsyncSessionLocal(): a session of the chain, nothing staged
OpenSession(f) == [state |-> "open", flow |-> f, staged |-> {}]

\* the identity of the session AsyncSessionLocal() returns
NewSession == CHOOSE i \in SessionIds :
                 /\ sessions[i].state = "free"
                 /\ \A j \in SessionIds : sessions[j].state = "free" => i <= j

\* a context kept in one slot shared by every chain
ctx_set_shared(c, f, s) == [g \in DOMAIN c |-> s]

\* _current_session.set(session) / reset(token) in the context of chain f
ctx_set(c, f, s) == [c EXCEPT ![f] = s]

\* a lookup that makes a session when the context has none
get_repository_session_or_new(cur) ==
    [err |-> "none", session |-> IF cur = NoSession THEN NewSession ELSE cur]

\* get_repository_session: the session of the context, or RuntimeError
get_repository_session(cur) ==
    IF cur = NoSession
    THEN [err |-> "RuntimeError", session |-> NoSession]
    ELSE [err |-> "none", session |-> cur]

\* session.commit(), rollback() and close() on the staged writes
session_commit(sess) == [sess EXCEPT !.staged = {}]
session_rollback(sess) == [sess EXCEPT !.staged = {}]

\* a close that leaves the session as it is
session_close_not(sess) == sess

session_close(sess) == FreeSession

\* the write a body stages: which chain, at which depth, read_only or not
WriteOf(f, fr) == [flow |-> f, depth |-> Len(stack[f]), ro |-> fr.read_only]

\* the frame of a wrapper call
TxFrame(propagation, read_only, s, new, existing, staged) ==
    [kind |-> "tx", propagation |-> propagation, read_only |-> read_only,
     session |-> s, created_here |-> new, token |-> existing,
     savepoint |-> (propagation = "nested" /\ ~new),
     sp |-> IF propagation = "nested" /\ ~new THEN staged ELSE {},
     wrote |-> FALSE]

\* the frame of the get_session dependency
RequestFrame(s, existing) ==
    [kind |-> "request", propagation |-> "none", read_only |-> FALSE,
     session |-> s, created_here |-> TRUE, token |-> existing,
     savepoint |-> FALSE, sp |-> {}, wrote |-> FALSE]

Top(f) == stack[f][Len(stack[f])]

Pop(f) == [stack EXCEPT ![f] = SubSeq(@, 1, Len(@) - 1)]

\* what the wrapper does with the session once the body has returned
AfterBody(fr) ==
    IF fr.savepoint THEN "release"
    ELSE IF fr.created_here THEN (IF fr.read_only THEN "rollback" ELSE "commit")
    ELSE IF fr.read_only /\ fr.propagation = "requires_new" THEN "rollback"
    ELSE "nothing"

\* a finally that closes whatever session the call ran on
ClosesAnySession(fr) == TRUE

\* the wrapper's finally: close the session and reset the context
ClosesSession(fr) == fr.created_here

\* async with session.begin_nested(): an error in the block rolls back to
\* the savepoint
ToSavepoint(fr, sess) == IF fr.savepoint THEN [sess EXCEPT !.staged = fr.sp] ELSE sess

\* the wrapper's except branch: session.rollback() on the session it ran on
ExceptRollback(fr, sess) == session_rollback(sess)

ScopeInit ==
    /\ current = [f \in Flows |-> NoSession]
    /\ stack = [f \in Flows |-> <<>>]
    /\ sessions = [i \in SessionIds |-> FreeSession]
    /\ committed = {}
    /\ mode = [f \in Flows |-> "run"]
    /\ begun = 0

---------------------------------------------------------------------------
(* Initial states: empty tables, or the tables one committed write of
   retention_days leaves behind; every flow idle *)

FirstWrite == Req("primitive", "retention_days", "days30", "", <<>>, NoData)

EmptyTables == [rows |-> {}, vers |-> {}]

AfterFirstWrite ==
    LET plan == Plan(FirstWrite)
    IN  [rows |-> {[value_id |-> 1, key |-> plan.key, current_version_id |-> 2]},
         vers |-> {[version_id |-> 2, value_id |-> 1, version_no |-> 1,
                    valid_from |-> 1, valid_to |-> NoTime,
                    payload |-> plan.payload, author |-> plan.author, reason |-> plan.reason]}]

\* no read has been made
NoRead == [path |-> "none", item_code |-> "", case |-> "none", err |-> "none",
           value |-> None, staged |-> {}]

\* a row without a current version: current_version_id is nullable
PointerlessRow ==
    [rows |-> {[value_id |-> 1, key |-> <<"table", "orders", "i_pii">>,
                current_version_id |-> NoId]},
     vers |-> {}]

\* the start of the flows, with the "domain" item configured one of `modes`
\* and the tables one of `tables`
InitOn(modes, tables) ==
    /\ domain_mode \in modes
    /\ label = BootLabels
    /\ read = NoRead
    /\ ScopeInit
    /\ db \in tables
    /\ tx = [w \in Writers |-> EmptyTx]
    /\ locks = {}
    /\ now = 1
    /\ pc = [w \in Writers |-> "idle"]
    /\ call = [w \in Writers |-> NoCall]
    /\ loc = [w \in Writers |-> NoLoc]
    /\ res = [w \in Writers |-> NoRes]
    /\ calls = 0
    /\ hist = [k \in AllKeys |->
                 IF db # EmptyTables /\ k = Plan(FirstWrite).key
                 THEN [n |-> 1, version_id |-> 2, req |-> FirstWrite]
                 ELSE NoHist]

InitWith(modes) == InitOn(modes, {EmptyTables, AfterFirstWrite})

Init == InitWith({"SINGLE"})

\* the "domain" item as seeded (SINGLE), or created MULTI through
\* create_meta_item before any value is written
InitSeq ==
    \/ InitWith({"SINGLE"})
    \/ InitWith({"MULTI"}) /\ db = EmptyTables

---------------------------------------------------------------------------
(* Actions *)

\* A call starts.  ctx = "request": get_session has put a session in the
\* context; ctx = "none": no session is active.  The wrapper decides whether
\* it creates a session of its own or runs the body on the active one, under
\* a savepoint if the propagation is nested.
Begin(w, req, ctx, propagation, limit) ==
    /\ pc[w] = "idle"
    /\ UNCHANGED <<env, scope>>
    /\ calls < limit
    /\ HasWrapper(req) \/ (ctx = "request" /\ propagation = "required")
    /\ calls' = calls + 1
    /\ call' = [call EXCEPT ![w] =
                  [req |-> req, ctx |-> ctx,
                   created_here |-> HasWrapper(req) /\ use_new(propagation, FALSE, ctx = "request"),
                   savepoint |-> /\ HasWrapper(req)
                                 /\ propagation = "nested"
                                 /\ ~use_new(propagation, FALSE, ctx = "request")]]
    /\ pc' = [pc EXCEPT ![w] = "validate"]
    /\ UNCHANGED <<db, tx, locks, now, loc, res, hist>>

\* a body that goes on to the write whatever its checks found
AfterValidateAnyway(err) == "select_row"

\* a body that returns after its checks without writing
AfterValidateReturn(err) == IF err = "none" THEN "body_done" ELSE "raised"

\* where the body goes after its checks
AfterValidate(err) == IF err = "none" THEN "select_row" ELSE "raised"

\* the body's checks, up to the point where it touches the entity row
Validate(w) ==
    /\ pc[w] = "validate"
    /\ UNCHANGED <<env, scope>>
    /\ LET plan == Plan(call[w].req)
       IN  /\ pc' = [pc EXCEPT ![w] =
                        IF plan.err # "none" /\ ~HasWrapper(call[w].req)
                        THEN RaisedPc(call[w].req)
                        ELSE AfterValidate(plan.err)]
           /\ res' = [res EXCEPT ![w] =
                        IF plan.err = "none" THEN res[w]
                        ELSE [outcome |-> "error", err |-> plan.err, ret |-> NoId]]
    /\ UNCHANGED <<db, tx, locks, now, call, loc, calls, hist>>

\* whether the body selects the entity row with_for_update:
\* _ensure_value_row and upsert_term_content do, the repository's
\* get_meta_value does not
SelectsForUpdate(req) == req.op # "biz_primitive"

\* the entity row: _ensure_value_row / get_meta_value, first half
SelectRow(w) ==
    /\ pc[w] = "select_row"
    /\ UNCHANGED <<env, scope>>
    /\ LET k == Plan(call[w].req).key
           found == {r \in View(db, tx[w]).rows : r.key = k}
       IN  IF found = {}
           THEN /\ pc' = [pc EXCEPT ![w] = "insert_row"]
                /\ UNCHANGED <<locks, loc>>
           ELSE LET mv == EntityOf(found)
                IN  /\ SelectsForUpdate(call[w].req) => ~HeldByOther(w, "row", mv.value_id)
                    /\ locks' = IF SelectsForUpdate(call[w].req)
                                THEN locks \cup {<<"row", mv.value_id, w>>}
                                ELSE locks
                    /\ loc' = [loc EXCEPT ![w].value_id = mv.value_id,
                                          ![w].current_version_id = mv.current_version_id]
                    /\ pc' = [pc EXCEPT ![w] = "close_prev"]
    /\ UNCHANGED <<db, tx, now, call, res, calls, hist>>

\* _ensure_value_row, second half: add the row and flush
InsertRow(w) ==
    /\ pc[w] = "insert_row"
    /\ UNCHANGED <<env, scope>>
    /\ LET k == Plan(call[w].req).key
           id == new_uuid
       IN  /\ \A o \in Writers \ {w} : \A r \in NewRows(db, tx[o]) : r.key # k
           /\ IF \E r \in db.rows : r.key = k
              THEN /\ Raise(w, "IntegrityError")
                   /\ UNCHANGED <<tx, loc>>
              ELSE /\ tx' = [tx EXCEPT ![w].rows = @ \cup
                               {[value_id |-> id, key |-> k, current_version_id |-> NoId]}]
                   /\ loc' = [loc EXCEPT ![w].value_id = id,
                                         ![w].current_version_id = NoId]
                   /\ pc' = [pc EXCEPT ![w] = "close_prev"]
                   /\ UNCHANGED res
    /\ UNCHANGED <<db, locks, now, call, calls, hist>>

\* a close step that stamps nothing
ClosedNever(prev, t) == prev

\* a close step that stamps both ends of the validity interval
ClosedRestamped(prev, t) ==
    IF prev.valid_to = NoTime THEN [prev EXCEPT !.valid_to = t, !.valid_from = t] ELSE prev

\* a close step that stamps the version whether it is open or not
ClosedAgain(prev, t) == [prev EXCEPT !.valid_to = t]

\* the version the close step stamps: the previous one, if it is still open
Closed(prev, t) == IF prev.valid_to = NoTime THEN [prev EXCEPT !.valid_to = t] ELSE prev

\* close the previous version: session.get(..., with_for_update=True)
ClosePrev(w) ==
    /\ pc[w] = "close_prev"
    /\ UNCHANGED <<env, scope>>
    /\ LET id == loc[w].current_version_id
           prev == {v \in View(db, tx[w]).vers : v.version_id = id}
       IN  IF id = NoId \/ prev = {}
           THEN UNCHANGED <<tx, locks, now>>
           ELSE /\ ~HeldByOther(w, "ver", id)
                /\ locks' = locks \cup {<<"ver", id, w>>}
                /\ \E t \in utcnow :
                     /\ now' = t
                     /\ tx' = [tx EXCEPT ![w].vers =
                                 {v \in @ : v.version_id # id} \cup {Closed(EntityOf(prev), t)}]
    /\ pc' = [pc EXCEPT ![w] = "next_no"]
    /\ UNCHANGED <<db, call, loc, res, calls, hist>>

\* version_no = await _next_version_no(...)
NextVersionNo(w) ==
    /\ pc[w] = "next_no"
    /\ UNCHANGED <<env, scope>>
    /\ loc' = [loc EXCEPT ![w].version_no = next_version_no(View(db, tx[w]), loc[w].value_id)]
    /\ pc' = [pc EXCEPT ![w] = "insert_version"]
    /\ UNCHANGED <<db, tx, locks, now, call, res, calls, hist>>

\* the version row the body builds; valid_from defaults to utcnow()
NewVersion(w, id, t) ==
    LET plan == Plan(call[w].req)
    IN  [version_id |-> id, value_id |-> loc[w].value_id, version_no |-> loc[w].version_no,
         valid_from |-> t, valid_to |-> NoTime,
         payload |-> plan.payload, author |-> plan.author, reason |-> plan.reason]

\* session.add(v); await session.flush()
InsertVersion(w) ==
    /\ pc[w] = "insert_version"
    /\ UNCHANGED <<env, scope>>
    /\ LET same(v) == v.value_id = loc[w].value_id /\ v.version_no = loc[w].version_no
           id == new_uuid
       IN  /\ \A o \in Writers \ {w} : \A v \in NewVers(db, tx[o]) : ~same(v)
           /\ IF \E v \in db.vers : same(v)
              THEN /\ Raise(w, "IntegrityError")
                   /\ UNCHANGED <<tx, loc, now>>
              ELSE /\ \E t \in utcnow :
                        /\ now' = t
                        /\ tx' = [tx EXCEPT ![w].vers = @ \cup {NewVersion(w, id, t)}]
                   /\ loc' = [loc EXCEPT ![w].version_id = id]
                   /\ pc' = [pc EXCEPT ![w] = "set_pointer"]
                   /\ UNCHANGED res
    /\ UNCHANGED <<db, locks, call, calls, hist>>

\* a pointer swap that is lost
RepointedStale(mv, version_id) == mv

\* the row after the pointer swap
Repointed(mv, version_id) == [mv EXCEPT !.current_version_id = version_id]

\* mv.current_version_id = v.version_id; return v.version_id.  The update
\* of the row waits for a lock another session holds on it.
SetPointer(w) ==
    /\ pc[w] = "set_pointer"
    /\ UNCHANGED <<env, scope>>
    /\ ~HeldByOther(w, "row", loc[w].value_id)
    /\ LET mv == EntityOf({r \in View(db, tx[w]).rows : r.value_id = loc[w].value_id})
       IN  tx' = [tx EXCEPT ![w].rows =
                    {r \in @ : r.value_id # mv.value_id} \cup {Repointed(mv, loc[w].version_id)}]
    /\ res' = [res EXCEPT ![w] = [outcome |-> "ok", err |-> "none", ret |-> loc[w].version_id]]
    /\ pc' = [pc EXCEPT ![w] = IF HasWrapper(call[w].req) THEN "body_done" ELSE "caller"]
    /\ UNCHANGED <<db, locks, now, call, loc, calls, hist>>

\* the suspension points at which the storage can fail the call
FailPoints == {"close_prev", "insert_version"}

\* a storage failure at a suspension point of the body or at the commit
Fail(w) ==
    /\ pc[w] \in FailPoints \/ (pc[w] = "body_done" /\ call[w].created_here)
    /\ UNCHANGED <<env, scope>>
    /\ pc' = [pc EXCEPT ![w] = IF pc[w] = "body_done" THEN "raised" ELSE RaisedPc(call[w].req)]
    /\ res' = [res EXCEPT ![w] = [outcome |-> "error", err |-> "StorageError", ret |-> NoId]]
    /\ UNCHANGED <<db, tx, locks, now, call, loc, calls, hist>>

\* the call is over for the flow: its locals are gone
Forget(w, next) ==
    /\ pc' = [pc EXCEPT ![w] = next]
    /\ IF next = "idle"
       THEN /\ call' = [call EXCEPT ![w] = NoCall]
            /\ res' = [res EXCEPT ![w] = NoRes]
       ELSE UNCHANGED <<call, res>>
    /\ loc' = [loc EXCEPT ![w] = NoLoc]

\* transactional.wrapper after the body returned: commit and close the
\* session if this call created it, nothing otherwise
WrapperReturn(w) ==
    /\ pc[w] = "body_done"
    /\ UNCHANGED <<env, scope>>
    /\ IF call[w].created_here
       THEN /\ db' = Commit(db, tx[w])
            /\ tx' = [tx EXCEPT ![w] = EmptyTx]
            /\ locks' = Release(w)
            /\ hist' = Recorded(hist, w)
       ELSE UNCHANGED <<db, tx, locks, hist>>
    /\ Forget(w, AfterCallPc(call[w].ctx))
    /\ UNCHANGED <<now, calls>>

\* transactional.wrapper, except branch: roll the session back (its own or
\* the one it joined), close it if created here, re-raise
WrapperExcept(w) ==
    /\ pc[w] = "raised"
    /\ UNCHANGED <<env, scope>>
    /\ tx' = [tx EXCEPT ![w] = Rollback(tx[w])]
    /\ locks' = Release(w)
    /\ Forget(w, AfterCallPc(call[w].ctx))
    /\ UNCHANGED <<db, now, calls, hist>>

\* an endpoint that commits the request session after every call that
\* returned
CallerCommitsReturned(req, outcome) == outcome = "ok"

\* whether the caller commits the request session itself after the call
\* (put_term_content does, the meta value endpoints do not)
CallerCommits(req, outcome) == req.op = "term" /\ outcome = "ok"

\* the request ends: get_session resets the context and closes the session
CallerFinish(w) ==
    /\ pc[w] = "caller"
    /\ UNCHANGED <<env, scope>>
    /\ IF CallerCommits(call[w].req, res[w].outcome)
       THEN /\ db' = Commit(db, tx[w])
            /\ hist' = Recorded(hist, w)
       ELSE UNCHANGED <<db, hist>>
    /\ tx' = [tx EXCEPT ![w] = EmptyTx]
    /\ locks' = Release(w)
    /\ Forget(w, "idle")
    /\ UNCHANGED <<now, calls>>

\* one step of a call in progress
Step(w) ==
    \/ Validate(w)
    \/ SelectRow(w)
    \/ InsertRow(w)
    \/ ClosePrev(w)
    \/ NextVersionNo(w)
    \/ InsertVersion(w)
    \/ SetPointer(w)
    \/ Fail(w)
    \/ WrapperReturn(w)
    \/ WrapperExcept(w)
    \/ CallerFinish(w)

\* concurrent flows
Next ==
    \/ \E w \in Writers, req \in Requests, ctx \in {"none", "request"}, p \in Propagations :
          Begin(w, req, ctx, p, MaxCalls)
    \/ \E w \in Writers : Step(w)

Spec == Init /\ [][Next]_vars

\* one flow, every kind of request
NextSeq ==
    \/ \E req \in SeqRequests, ctx \in {"none", "request"}, p \in Propagations :
          Begin("w1", req, ctx, p, MaxSeqCalls)
    \/ Step("w1")

SpecSeq == InitSeq /\ [][NextSeq]_vars

\* concurrent flows through MetaValueBusinessService, called in a request
\* (meta_values_improved.py), and through the setters on a session of
\* their own
NextBiz ==
    \/ \E w \in Writers, req \in BizRequests :
          Begin(w, req, IF req.op = "primitive" THEN "none" ELSE "request", "required",
                MaxCalls)
    \/ \E w \in Writers : Step(w)

SpecBiz == Init /\ [][NextBiz]_vars

\* concurrent setters of meta_value_service and upsert_term_content
NextLive ==
    \/ \E w \in Writers, req \in LiveRequests, ctx \in {"none", "request"} :
          Begin(w, req, ctx, "required", MaxCalls)
    \/ \E w \in Writers : Step(w)

\* the event loop resumes every coroutine that can go on, and the database
\* grants a lock once it is free
SpecLive == Init /\ [][NextLive]_vars /\ \A w \in Writers : WF_vars(Step(w))

\* one flow, requests with several defects
NextVal ==
    \/ \E req \in ValRequests :
          Begin("w1", req, IF HasWrapper(req) THEN "none" ELSE "request", "required",
                MaxSeqCalls)
    \/ Step("w1")

SpecVal == InitSeq /\ [][NextVal]_vars

\* a read of the value of an item of the target, by the service function
\* or by the endpoint, on a session of its own
Read(path, item_code) ==
    /\ LET r == IF path = "service"
                THEN [err |-> "none",
                      value |-> get_meta_value_unified(db, "table", "orders", item_code)]
                ELSE get_meta_value_for_target_and_item(db, "table", "orders", item_code)
       IN  read' = [path |-> path, item_code |-> item_code,
                    case |-> ReadCase(db, "table", "orders", item_code),
                    err |-> r.err, value |-> r.value,
                    staged |-> IF path = "service"
                               THEN StagedByRead(db, "table", "orders", item_code)
                               ELSE {}]
    /\ UNCHANGED <<chain, scope, domain_mode, label>>

\* the label of a code or a term is changed in the reference data
Relabel(id) ==
    /\ label[id] = BootLabels[id]
    /\ label' = [label EXCEPT ![id] = NewLabels[id]]
    /\ UNCHANGED <<chain, scope, domain_mode, read>>

\* one writing flow, a reader, and changes of the reference data
NextRead ==
    \/ \E req \in ReadRequests, ctx \in {"none", "request"} :
          Begin("w1", req, ctx, "required", MaxSeqCalls)
    \/ Step("w1")
    \/ \E path \in {"service", "endpoint"}, item_code \in ReadItems : Read(path, item_code)
    \/ \E id \in DOMAIN NewLabels : Relabel(id)

InitRead == InitOn({"SINGLE"}, {EmptyTables, AfterFirstWrite, PointerlessRow})

SpecRead == InitRead /\ [][NextRead]_vars

---------------------------------------------------------------------------
(* Actions of the nested transaction scopes *)

\* get_session: a request starts with a session of its own in the context
RequestBegin(f) ==
    /\ mode[f] = "run"
    /\ stack[f] = <<>>
    /\ begun < MaxScopes
    /\ begun' = begun + 1
    /\ LET s == NewSession
       IN  /\ sessions' = [sessions EXCEPT ![s] = OpenSession(f)]
           /\ stack' = [stack EXCEPT ![f] = <<RequestFrame(s, current[f])>>]
           /\ current' = ctx_set(current, f, s)
    /\ UNCHANGED <<committed, mode, chain, env>>

\* transactional.wrapper up to the body: join the active session, under a
\* savepoint if nested, or create one and put it in the context
WrapperEnter(f, propagation, read_only) ==
    /\ mode[f] = "run"
    /\ Len(stack[f]) < MaxDepth
    /\ LET existing == current[f]
           new == use_new(propagation, read_only, existing # NoSession)
           s == IF new THEN NewSession ELSE existing
       IN  /\ sessions' = IF new THEN [sessions EXCEPT ![s] = OpenSession(f)] ELSE sessions
           /\ current' = IF new THEN ctx_set(current, f, s) ELSE current
           /\ stack' = [stack EXCEPT ![f] =
                          Append(@, TxFrame(propagation, read_only, s, new, existing,
                                            sessions[s].staged))]
    /\ UNCHANGED <<committed, mode, chain, env>>

\* a call of a @transactional function, of any propagation
ScopeEnter(f, propagation, read_only) ==
    /\ begun < MaxScopes
    /\ begun' = begun + 1
    /\ WrapperEnter(f, propagation, read_only)

\* the body of the innermost frame stages a write on the session it obtains
\* from the context
ScopeWrite(f) ==
    /\ mode[f] = "run"
    /\ stack[f] # <<>>
    /\ ~Top(f).wrote
    /\ LET r == get_repository_session(current[f])
       IN  /\ r.err = "none"
           /\ sessions' = [sessions EXCEPT ![r.session].staged = @ \cup {WriteOf(f, Top(f))}]
    /\ stack' = [stack EXCEPT ![f][Len(stack[f])].wrote = TRUE]
    /\ UNCHANGED <<current, committed, mode, chain, env, begun>>

\* code outside every scope asks for the session of the context
Obtain(f) ==
    /\ mode[f] = "run"
    /\ stack[f] = <<>>
    /\ LET r == get_repository_session(current[f])
       IN  IF r.err # "none"
           THEN /\ mode' = [mode EXCEPT ![f] = "raising"]
                /\ UNCHANGED sessions
           ELSE /\ sessions' = [sessions EXCEPT ![r.session] =
                                  [state |-> "open", flow |-> f,
                                   staged |-> {[flow |-> f, depth |-> 0, ro |-> FALSE]}]]
                /\ UNCHANGED mode
    /\ UNCHANGED <<current, stack, committed, chain, env, begun>>

\* the error of a chain without a frame reaches its caller
Unhandled(f) ==
    /\ mode[f] # "run"
    /\ stack[f] = <<>>
    /\ mode' = [mode EXCEPT ![f] = "run"]
    /\ UNCHANGED <<current, stack, sessions, committed, chain, env, begun>>

\* the body of the innermost frame raises an Exception
ScopeRaise(f) ==
    /\ mode[f] = "run"
    /\ stack[f] # <<>>
    /\ mode' = [mode EXCEPT ![f] = "raising"]
    /\ UNCHANGED <<current, stack, sessions, committed, chain, env, begun>>

\* the body of a frame catches the error of the call it made and goes on
ScopeCatch(f) ==
    /\ mode[f] = "raising"
    /\ stack[f] # <<>>
    /\ mode' = [mode EXCEPT ![f] = "run"]
    /\ UNCHANGED <<current, stack, sessions, committed, chain, env, begun>>

\* the chain is cancelled at a suspension point (CancelledError is no
\* Exception)
ScopeCancel(f) ==
    /\ mode[f] = "run"
    /\ stack[f] # <<>>
    /\ mode' = [mode EXCEPT ![f] = "cancelled"]
    /\ UNCHANGED <<current, stack, sessions, committed, chain, env, begun>>

\* a finally that closes the session and leaves the context as the body
\* had it
FinallyKeepsContext(f, fr, sess) ==
    /\ sessions' = [sessions EXCEPT ![fr.session] =
                      IF ClosesSession(fr) THEN session_close(sess) ELSE sess]
    /\ current' = current
    /\ stack' = Pop(f)

\* the session and the context once the wrapper's finally has run
Finally(f, fr, sess) ==
    /\ sessions' = [sessions EXCEPT ![fr.session] =
                      IF ClosesSession(fr) THEN session_close(sess) ELSE sess]
    /\ current' = IF ClosesSession(fr) THEN ctx_set(current, f, fr.token) ELSE current
    /\ stack' = Pop(f)

\* transactional.wrapper after the body returned
ScopeReturn(f) ==
    /\ mode[f] = "run"
    /\ stack[f] # <<>>
    /\ Top(f).kind = "tx"
    /\ LET fr == Top(f)
           sess == sessions[fr.session]
           todo == AfterBody(fr)
       IN  /\ committed' = IF todo = "commit" THEN committed \cup sess.staged ELSE committed
           /\ Finally(f, fr, CASE todo = "commit" -> session_commit(sess)
                               [] todo = "rollback" -> session_rollback(sess)
                               [] OTHER -> sess)
    /\ UNCHANGED <<mode, chain, env, begun>>

\* transactional.wrapper when the body raised an Exception: back to the
\* savepoint if there is one, then the except branch, then finally
ScopeExcept(f) ==
    /\ mode[f] = "raising"
    /\ stack[f] # <<>>
    /\ Top(f).kind = "tx"
    /\ LET fr == Top(f)
       IN  Finally(f, fr, ExceptRollback(fr, ToSavepoint(fr, sessions[fr.session])))
    /\ UNCHANGED <<committed, mode, chain, env, begun>>

\* transactional.wrapper when the chain is cancelled: back to the savepoint
\* if there is one, no except branch, then finally
ScopeTeardown(f) ==
    /\ mode[f] = "cancelled"
    /\ stack[f] # <<>>
    /\ Top(f).kind = "tx"
    /\ LET fr == Top(f)
       IN  Finally(f, fr, ToSavepoint(fr, sessions[fr.session]))
    /\ UNCHANGED <<committed, mode, chain, env, begun>>

\* the request ends: the endpoint commits the request session or not, then
\* get_session resets the context and closes the session
RequestEnd(f, commits) ==
    /\ stack[f] # <<>>
    /\ Top(f).kind = "request"
    /\ LET fr == Top(f)
           sess == sessions[fr.session]
           done == commits /\ mode[f] = "run"
       IN  /\ committed' = IF done THEN committed \cup sess.staged ELSE committed
           /\ Finally(f, fr, IF done THEN session_commit(sess) ELSE sess)
    /\ mode' = [mode EXCEPT ![f] = "run"]
    /\ UNCHANGED <<chain, env, begun>>

NextTx ==
    \/ \E f \in Flows : RequestBegin(f)
    \/ \E f \in Flows, p \in Propagations, ro \in BOOLEAN : ScopeEnter(f, p, ro)
    \/ \E f \in Flows : ScopeWrite(f)
    \/ \E f \in Flows : Obtain(f)
    \/ \E f \in Flows : Unhandled(f)
    \/ \E f \in Flows : ScopeRaise(f)
    \/ \E f \in Flows : ScopeCatch(f)
    \/ \E f \in Flows : ScopeCancel(f)
    \/ \E f \in Flows : ScopeReturn(f)
    \/ \E f \in Flows : ScopeExcept(f)
    \/ \E f \in Flows : ScopeTeardown(f)
    \/ \E f \in Flows, commits \in BOOLEAN : RequestEnd(f, commits)

InitTx == InitWith({"SINGLE"}) /\ db = EmptyTables

\* get_meta_value_repository: the repository of a request is built once,
\* when the endpoint's dependencies are resolved, on the session get_session
\* has put in the context; every statement of the repository runs on it
repo_session(f) == stack[f][1].session

\* a method of MetaValueBusinessService is called by its endpoint: the
\* setters are @transactional(), get_meta_values_for_target is
\* @transactional(read_only=True)
ServiceEnter(f, read_only) ==
    /\ stack[f] # <<>>
    /\ Top(f).kind = "request"
    /\ WrapperEnter(f, "required", read_only)
    /\ UNCHANGED begun

\* the body of the service method runs a statement through self.repo
RepoUse(f) ==
    /\ mode[f] = "run"
    /\ stack[f] # <<>>
    /\ Top(f).kind = "tx"
    /\ ~Top(f).wrote
    /\ sessions' = [sessions EXCEPT ![repo_session(f)].staged = @ \cup {WriteOf(f, Top(f))}]
    /\ stack' = [stack EXCEPT ![f][Len(stack[f])].wrote = TRUE]
    /\ UNCHANGED <<current, committed, mode, chain, env, begun>>

\* the requests of the improved API: dependency, service method, repository
\* statements, and the end of the request, which commits nothing
NextRepo ==
    \/ \E f \in Flows : RequestBegin(f)
    \/ \E f \in Flows, ro \in BOOLEAN : ServiceEnter(f, ro)
    \/ \E f \in Flows : RepoUse(f)
    \/ \E f \in Flows : ScopeRaise(f)
    \/ \E f \in Flows : ScopeCancel(f)
    \/ \E f \in Flows : ScopeReturn(f)
    \/ \E f \in Flows : ScopeExcept(f)
    \/ \E f \in Flows : ScopeTeardown(f)
    \/ \E f \in Flows : RequestEnd(f, FALSE)

SpecRepo == InitTx /\ [][NextRepo]_vars

SpecTx == InitTx /\ [][NextTx]_vars

---------------------------------------------------------------------------
(* Properties *)

\* the committed versions of one entity row
VersionsOf(d, value_id) == {v \in d.vers : v.value_id = value_id}

\* the committed row of an entity key
RowsOf(d, k) == {r \in d.rows : r.key = k}

\* the keys of the meta values
ValueKeys == {k \in AllKeys : k[1] # "term"}

\* C1: after N >= 1 successful committed writes to an entity, its pointer
\* references the version numbered N, which is open; the versions 1..N-1 are
\* closed; and each version is closed no later than the next one starts.
C1_ChainAfterWrites ==
    \A k \in AllKeys :
        hist[k].n >= 1 =>
            /\ RowsOf(db, k) # {}
            /\ \A r \in RowsOf(db, k) :
                 LET vs == VersionsOf(db, r.value_id)
                 IN  /\ \E v \in vs : /\ v.version_id = r.current_version_id
                                      /\ v.version_no = hist[k].n
                                      /\ v.valid_to = NoTime
                     /\ \A v \in vs : v.version_no < hist[k].n => v.valid_to # NoTime
                     /\ \A v, u \in vs :
                          u.version_no = v.version_no + 1 => v.valid_to <= u.valid_from

\* three committed writes to one entity: two closed versions and the open one
C1_Witness ==
    \E k \in AllKeys :
        /\ hist[k].n = 3
        /\ \E r \in RowsOf(db, k) : Cardinality(VersionsOf(db, r.value_id)) = 3

\* C2: in every committed state, whatever the interleaving of the writers,
\* an entity whose pointer is set has exactly one open version, and the
\* pointer references that version, which belongs to the same entity.
C2_OneOpenCurrent ==
    \A r \in db.rows :
        r.current_version_id # NoId =>
            LET open == {v \in VersionsOf(db, r.value_id) : v.valid_to = NoTime}
            IN  /\ Cardinality(open) = 1
                /\ \A v \in open : v.version_id = r.current_version_id

\* an entity with history is committed while another flow is in the middle
\* of a write to it
C2_Witness ==
    \E r \in db.rows, w \in Writers :
        /\ Cardinality(VersionsOf(db, r.value_id)) >= 2
        /\ pc[w] = "close_prev"
        /\ loc[w].value_id = r.value_id

\* C3: the version numbers of an entity are exactly 1..k, with no gap and no
\* duplicate, also with concurrent writers and after failed, rolled-back and
\* retried writes.
C3_ContiguousVersionNos ==
    \A r \in db.rows :
        LET vs == VersionsOf(db, r.value_id)
        IN  /\ {v.version_no : v \in vs} = 1..Cardinality(vs)
            /\ Cardinality(vs) >= 1

\* an entity with history, one writer failed while another one's write is in
\* the committed chain
C3_Witness ==
    \E r \in db.rows, w \in Writers :
        /\ Cardinality(VersionsOf(db, r.value_id)) >= 2
        /\ res[w].err \in {"StorageError", "IntegrityError"}

\* C4: two concurrent writes to the same (target, item) both succeed, for
\* every prior state of the entity, the one without a row included: no write
\* is turned down because the other one got there first.
C4_ConcurrentWritesBothSucceed ==
    \A w \in Writers : res[w].err # "IntegrityError"

\* C5: when a write has returned a version id and its unit of work ends
\* without error, the version it returned is committed; with no session in
\* the context and with the session of get_session in it.
C5_ReturnedWriteIsCommitted ==
    [][\A w \in Writers :
          (/\ pc[w] \in {"body_done", "caller"}
           /\ pc'[w] = "idle"
           /\ res[w].outcome = "ok")
          => \E v \in db'.vers : v.version_id = res[w].ret]_vars

\* a committed state without a partly applied chain write: every row has a
\* pointer to one of its versions, that version is its newest and is open,
\* every other version is closed, and every version has its row
NoPartialWrite(d) ==
    /\ \A r \in d.rows :
         /\ r.current_version_id # NoId
         /\ \E v \in VersionsOf(d, r.value_id) :
              /\ v.version_id = r.current_version_id
              /\ v.valid_to = NoTime
              /\ \A u \in VersionsOf(d, r.value_id) : u.version_no <= v.version_no
         /\ \A u \in VersionsOf(d, r.value_id) :
              u.version_id # r.current_version_id => u.valid_to # NoTime
    /\ \A v \in d.vers : \E r \in d.rows : r.value_id = v.value_id

\* C6: an exception inside a transactional scope, owner or joined, under any
\* propagation, rolls the session back and goes on to the caller, and no
\* committed state holds a partly applied chain write.
C6_ExceptionRollsBack ==
    [][/\ NoPartialWrite(db')
       /\ \A w \in Writers :
            (pc[w] = "raised" /\ pc'[w] # "raised")
            => /\ tx'[w] = EmptyTx
               /\ db' = db
               /\ \A l \in locks' : l[3] # w
               /\ pc'[w] = "caller" => res'[w].outcome = "error"]_vars

\* a joined scope under a savepoint has failed after staging writes, the
\* session is rolled back and the caller holds the error
C6_Witness ==
    \E w \in Writers :
        /\ pc[w] = "caller"
        /\ call[w].savepoint
        /\ res[w].err = "StorageError"
        /\ tx[w] = EmptyTx
        /\ db # EmptyTables

\* the errors of a rejected write
ValidationErrors ==
    {"ItemNotFound", "TypeMismatch", "SelectionModeMismatch", "ReferenceNotFound",
     "MalformedValue"}

\* C7: a write that is rejected (unknown item, type mismatch, selection-mode
\* mismatch, unresolvable code or term) leaves the committed state as it was.
C7_RejectedWriteChangesNothing ==
    [][\A w \in Writers :
          (/\ call[w].req.op # "none"
           /\ Plan(call[w].req).err \in ValidationErrors)
          => db' = db]_vars

\* a write naming an unknown code has been rejected; the entity has no row
C7_Witness ==
    /\ pc["w1"] = "caller"
    /\ res["w1"].err = "ReferenceNotFound"
    /\ call["w1"].req.item_code = "pii_level"
    /\ RowsOf(db, <<"table", "orders", "i_pii">>) = {}

\* C8: for every code key that exists, a CODESET write naming it, followed by
\* a read, yields a payload with that code key.
C8_CodeKeyRoundTrip ==
    [][\A w \in Writers :
          (/\ call[w].req.op = "codeset"
           /\ \E c \in Code : c.code_key = call[w].req.key
           /\ pc[w] # "idle" /\ pc'[w] = "idle"
           /\ res[w].err # "StorageError")
          => LET got == get_meta_value_unified(db', call[w].req.target_type,
                                               call[w].req.target_id, call[w].req.item_code)
             IN  /\ got # None
                 /\ got[1].code_key = call[w].req.key]_vars

C10_OnlyValidToOfCurrent ==
    [][\A v \in db.vers :
          \E u \in db'.vers :
              /\ u.version_id = v.version_id
              /\ u # v =>
                   /\ u = [v EXCEPT !.valid_to = u.valid_to]
                   /\ v.valid_to = NoTime
                   /\ \E r \in db.rows : /\ r.value_id = v.value_id
                                         /\ r.current_version_id = v.version_id
                   /\ \E n \in db'.vers : /\ n.value_id = v.value_id
                                          /\ n.version_id \notin VerIds(db.vers)]_vars

\* a version of one entity is closed while another entity has versions
C10_Witness ==
    \E v, u \in db.vers :
        /\ v.valid_to # NoTime
        /\ u.value_id # v.value_id

\* the term keys a TAXONOMY write carries, through whichever setter
TermKeysOf(req) ==
    IF req.op = "tax_multi" THEN req.keys
    ELSE IF req.op = "tax_single" THEN <<req.key>>
    ELSE req.data.term_keys

\* a write of term keys to the TAXONOMY item "domain"
IsTaxonomyWrite(req) ==
    /\ req.op \in {"tax_single", "tax_multi", "unified"}
    /\ req.item_code = "domain"
    /\ req.op = "unified" => "term_keys" \in DOMAIN req.data

\* the versions committed or staged by any session
AllVersions == db.vers \cup UNION {tx[w].vers : w \in Writers}

\* C11: an item configured SINGLE rejects, with SelectionModeMismatch, every
\* TAXONOMY write that carries two term keys, whatever mode the write
\* declares and through every setter, and the call creates no version.
C11_SingleRejectsTwoKeys ==
    \A w \in Writers :
        (/\ IsTaxonomyWrite(call[w].req)
         /\ Len(TermKeysOf(call[w].req)) = 2
         /\ domain_mode = "SINGLE"
         /\ pc[w] \notin {"idle", "validate"})
        => /\ res[w].err = "SelectionModeMismatch"
           /\ tx[w].vers = {}

\* C12: an item configured MULTI rejects every TAXONOMY write with no term
\* key, through the typed multi setter and the unified setter, and no
\* version with an empty term list exists.
C12_MultiRejectsNoKeys ==
    /\ \A w \in Writers :
         (/\ IsTaxonomyWrite(call[w].req)
          /\ Len(TermKeysOf(call[w].req)) = 0
          /\ domain_mode = "MULTI"
          /\ pc[w] \notin {"idle", "validate"})
         => res[w].err = "SelectionModeMismatch"
    /\ \A v \in AllVersions :
         "value_json_v2" \in DOMAIN v.payload /\ v.payload.value_json_v2 # None
         => LET obj == loads(v.payload.value_json_v2)
            IN  "term_keys" \in DOMAIN obj => Len(obj.term_keys) > 0

\* a step in which chain f enters a wrapper, and the frame it pushes
Entered(f) ==
    /\ Len(stack'[f]) = Len(stack[f]) + 1
    /\ stack'[f][Len(stack'[f])].kind = "tx"

NewTop(f) == stack'[f][Len(stack'[f])]

\* a step in which the innermost wrapper of chain f hands control back
Exited(f) ==
    /\ Len(stack[f]) = Len(stack'[f]) + 1
    /\ Top(f).kind = "tx"

\* C13: a call under required, with read_only set or not, runs on the active
\* session and creates none when a session is active; when none is active it
\* creates one, and itself ends and closes it.
C13_RequiredJoinsOrOwns ==
    [][\A f \in Flows :
          /\ (Entered(f) /\ NewTop(f).propagation = "required")
             => IF current[f] # NoSession
                THEN /\ NewTop(f).session = current[f]
                     /\ sessions' = sessions
                     /\ current' = current
                ELSE /\ NewTop(f).created_here
                     /\ sessions[NewTop(f).session].state = "free"
                     /\ sessions'[NewTop(f).session].state = "open"
          /\ (Exited(f) /\ Top(f).propagation = "required" /\ Top(f).token = NoSession)
             => sessions'[Top(f).session] = FreeSession]_vars

\* C14: a call under requires_new runs on a session it creates, distinct
\* from the active one; when it returns, its writes are committed, and what
\* is committed stays committed; when it fails, the writes staged on the
\* other sessions stay staged.
C14_RequiresNewIsIndependent ==
    [][/\ committed \subseteq committed'
       /\ \A f \in Flows :
            /\ (Entered(f) /\ NewTop(f).propagation = "requires_new")
               => /\ NewTop(f).created_here
                  /\ NewTop(f).session # current[f]
                  /\ sessions[NewTop(f).session].state = "free"
                  /\ current'[f] = NewTop(f).session
            /\ (Exited(f) /\ Top(f).propagation = "requires_new")
               => /\ (mode[f] = "run" /\ ~Top(f).read_only)
                     => sessions[Top(f).session].staged \subseteq committed'
                  /\ (mode[f] # "run"
                      => \A i \in SessionIds \ {Top(f).session} : sessions'[i] = sessions[i])]_vars

\* the outer call has staged a write and is failing, after the write of its
\* requires_new call was committed
C14_Witness ==
    \E f \in Flows :
        /\ Len(stack[f]) = 1
        /\ mode[f] = "raising"
        /\ sessions[Top(f).session].staged # {}
        /\ [flow |-> f, depth |-> 2, ro |-> FALSE] \in committed

\* C15: when the body of a nested call inside an active transaction raises,
\* only the writes of the nested scope are rolled back: what the outer
\* transaction had staged before the call is still staged afterwards.
C15_NestedFailureKeepsOuterWrites ==
    [][\A f \in Flows :
          (Exited(f) /\ Top(f).savepoint /\ mode[f] = "raising")
          => sessions'[Top(f).session].staged = Top(f).sp]_vars

\* C16: a call that did not create the session it runs on never commits and
\* never closes it, whether its body succeeds or fails; a session is
\* committed and closed only by the frame that created it.
C16_JoinerNeverCommitsOrCloses ==
    [][/\ \A f \in Flows :
            (Exited(f) /\ ~Top(f).created_here)
            => /\ committed' = committed
               /\ sessions'[Top(f).session].state = "open"
       /\ \A i \in SessionIds :
            (sessions[i].state = "open"
             /\ (\/ sessions'[i].state = "free"
                 \/ (committed' # committed /\ sessions'[i].staged # sessions[i].staged)))
            => \E f \in Flows :
                 /\ Len(stack[f]) = Len(stack'[f]) + 1
                 /\ Top(f).session = i
                 /\ Top(f).created_here]_vars

\* a joined call has returned: its write is staged on the session of the
\* outer call, which is still open, and nothing is committed
C16_Witness ==
    \E f \in Flows :
        /\ Len(stack[f]) = 1
        /\ mode[f] = "run"
        /\ begun = 2
        /\ [flow |-> f, depth |-> 2, ro |-> FALSE] \in sessions[Top(f).session].staged
        /\ committed = {}

\* C17: no write staged by the body of a read_only call is ever committed,
\* under any propagation, with or without an active session, neither at the
\* call's exit nor when an enclosing transaction commits.
C17_ReadOnlyNeverCommits ==
    \A t \in committed : ~t.ro

\* C18: get_repository_session with no session in the context fails and
\* hands back no session; no session is created for a chain that is in no
\* scope.
C18_NoSessionOutsideScope ==
    [][/\ get_repository_session(NoSession).err = "RuntimeError"
       /\ get_repository_session(NoSession).session = NoSession
       /\ \A f \in Flows :
            (stack[f] = <<>> /\ stack'[f] = <<>>)
            => /\ \A i \in SessionIds : sessions'[i].flow # f
               /\ current'[f] = NoSession
               /\ ((mode[f] = "run" /\ mode'[f] # "run") => mode'[f] = "raising")]_vars

\* a chain in no scope has asked for the session and holds the error
C18_Witness ==
    \E f \in Flows :
        /\ begun = 0
        /\ mode[f] = "raising"
        /\ current[f] = NoSession
        /\ \A i \in SessionIds : sessions[i].state = "free"

\* C19: when a wrapper that created a session hands control back, after a
\* return, an Exception or a cancellation, the session is closed with
\* nothing staged, and only a returning call has committed; a cancelled
\* chain commits nothing; no session is open without a frame of its chain.
C19_SessionEndsWithItsWrapper ==
    [][/\ \A f \in Flows :
            /\ (Exited(f) /\ Top(f).created_here)
               => /\ sessions'[Top(f).session] = FreeSession
                  /\ \/ committed' = committed
                     \/ /\ mode[f] = "run"
                        /\ committed' = committed \cup sessions[Top(f).session].staged
            /\ (mode[f] = "cancelled"
                => \A t \in committed' \ committed : t.flow # f)
       /\ \A i \in SessionIds :
            sessions'[i].state = "open"
            => \E k \in 1..Len(stack'[sessions'[i].flow]) :
                 stack'[sessions'[i].flow][k].session = i]_vars

\* a cancelled chain has left its last wrapper: every session is closed and
\* nothing is committed
C19_Witness ==
    \E f \in Flows :
        /\ mode[f] = "cancelled"
        /\ stack[f] = <<>>
        /\ begun = 2
        /\ \A i \in SessionIds : sessions[i] = FreeSession
        /\ committed = {}

\* C20: the session a chain finds in the context is always one created in
\* that chain, the one of its innermost frame; a step of one chain never
\* changes the session another chain finds.
C20_ContextPerChain ==
    [][\A f \in Flows :
          /\ current'[f] # NoSession
             => /\ sessions'[current'[f]].state = "open"
                /\ sessions'[current'[f]].flow = f
                /\ get_repository_session(current'[f]).session = current'[f]
          /\ stack'[f] # <<>> => current'[f] = stack'[f][Len(stack'[f])].session
          /\ stack'[f] = stack[f] => current'[f] = current[f]]_vars

\* both chains are inside a scope, each with its own session in the context
C20_Witness ==
    /\ current["c1"] # NoSession
    /\ current["c2"] # NoSession
    /\ current["c1"] # current["c2"]
    /\ stack["c1"] # <<>> /\ stack["c2"] # <<>>

\* C21: the committed state holds at most one row per (target_type,
\* target_id, item_id) and at most one content container per term, also
\* after two concurrent first writes; and a row appears in it only when a
\* write to a key without a row commits the row it inserted.
C21_OneRowPerKey ==
    [][/\ \A r1, r2 \in db.rows : r1.key = r2.key => r1 = r2
       /\ \A r1, r2 \in db'.rows : r1.key = r2.key => r1 = r2
       /\ \A r \in db'.rows :
            r.value_id \notin RowIds(db.rows)
            => \E w \in Writers :
                 /\ call[w].req.op # "none"
                 /\ Plan(call[w].req).key = r.key
                 /\ r \in tx[w].rows
                 /\ RowsOf(db, r.key) = {}]_vars

\* two flows made the first write to one key: the row of one is committed,
\* the other was turned down
C21_Witness ==
    \E w \in Writers :
        /\ call[w].req.op # "none"
        /\ res[w].err = "IntegrityError"
        /\ Cardinality(RowsOf(db, Plan(call[w].req).key)) = 1

\* the type a write declares: the setter's own, or the "type" of value_data
DeclaredType(req) ==
    CASE req.op = "primitive" -> "PRIMITIVE"
      [] req.op = "string"    -> "STRING"
      [] req.op = "codeset"   -> "CODESET"
      [] req.op \in {"tax_single", "tax_multi"} -> "TAXONOMY"
      [] req.op = "unified"   -> Get(req.data, "type", "none")
      [] OTHER -> "none"

\* the rows committed or staged by any session
AllRows == db.rows \cup UNION {tx[w].rows : w \in Writers}

\* the object a version's payload text encodes
PayloadObj(v) ==
    IF v.payload.value_json # None THEN loads(v.payload.value_json)
    ELSE loads(v.payload.value_json_v2)

\* the registry's kind of the item a row belongs to
KindOfRow(r) ==
    get_meta_item_type_kind(EntityOf({i \in CustomMetaItem : i.item_id = r.key[3]}).item_code)

UnknownTermCall(w) ==
    /\ call[w].req.op = "term"
    /\ {t \in Term : t.term_id = call[w].req.key} = {}

\* C30: a content write for a term id that does not exist fails with
\* EntityNotFound and creates neither a content container nor a version,
\* committed or staged.
C30_UnknownTermIsNotFound ==
    [][\A w \in Writers :
          UnknownTermCall(w)
          => /\ db' = db
             /\ tx'[w] = EmptyTx
             /\ (pc[w] = "validate"
                    => res'[w].err = "EntityNotFound" /\ pc'[w] = "caller")]_vars

\* the content write for the unknown term id has been refused
C30_Witness ==
    /\ UnknownTermCall("w1")
    /\ pc["w1"] = "caller"
    /\ res["w1"].err = "EntityNotFound"
    /\ tx["w1"] = EmptyTx

\* the current version of the pii_level value of the target, if any
CurrentPii(d) ==
    {v \in d.vers : \E r \in RowsOf(d, <<"table", "orders", "i_pii">>) :
                       r.current_version_id = v.version_id}

\* the label a read result carries for its code
LabelRead(r) ==
    IF "code_label" \in DOMAIN r.value[1] THEN r.value[1].code_label ELSE Null

\* C25: a read of a CODESET value returns the label the code has in the
\* reference data at the time of the read, also after the label changed
\* since the write.
C25_ReadReturnsLiveLabel ==
    [][(/\ read' # read
        /\ read'.path = "service"
        /\ read'.item_code = "pii_level"
        /\ read'.err = "none"
        /\ read'.value # None)
       => \A v \in CurrentPii(db') :
            \A c \in Code' :
               c.code_id = PayloadObj(v).code_id => LabelRead(read') = c.label_default]_vars

\* C26: a read for an item code unknown to the registry fails with
\* ItemNotFound; it never returns "absent".
C26_UnknownItemReadFails ==
    (/\ read.path # "none"
     /\ get_meta_item_type_kind(read.item_code) = "ValueError")
    => read.err = "ItemNotFound"

\* C27: a read of an entity whose row exists but has no current version
\* returns "no current value", not an error.
C27_PointerlessRowReadsAbsent ==
    read.case = "no_version" => (read.err = "none" /\ read.value = None)

\* the endpoint has read the row without a current version
C27_Witness ==
    /\ read.case = "no_version"
    /\ read.path = "endpoint"
    /\ read.err = "none"
    /\ \E r \in db.rows : r.current_version_id = NoId

Identifiers(req) ==
    CASE req.op \in {"codeset", "tax_single"} -> <<req.key>>
      [] req.op = "tax_multi" -> req.keys
      [] req.op = "unified" /\ "code_key" \in DOMAIN req.data -> <<req.data.code_key>>
      [] req.op = "unified" /\ "term_keys" \in DOMAIN req.data -> req.data.term_keys
      [] OTHER -> <<>>

\* the ids of the codes (terms) an identifier names, as an id or as a key
Named(req, k) ==
    IF DeclaredType(req) = "CODESET"
    THEN {c.code_id : c \in {c \in Code : c.code_id = k \/ c.code_key = k}}
    ELSE {t.term_id : t \in {t \in Term : t.term_id = k \/ t.term_key = k}}

\* the selection mode a TAXONOMY write declares
DeclaredMode(req) ==
    CASE req.op = "tax_single" -> "SINGLE"
      [] req.op = "tax_multi"  -> "MULTI"
      [] OTHER -> Get(req.data, "selection_mode", "SINGLE")

\* the defects of a write, by the validation step that is to find them
ItemDefect(req) == get_meta_item_type_kind(req.item_code) = "ValueError"
TypeDefect(req) == DeclaredType(req) # get_meta_item_type_kind(req.item_code)
SelectionDefect(req) ==
    /\ DeclaredType(req) = "TAXONOMY"
    /\ \/ \E i \in ItemRows(req.item_code) : i.selection_mode # DeclaredMode(req)
       \/ DeclaredMode(req) = "SINGLE" /\ Len(Identifiers(req)) # 1
       \/ DeclaredMode(req) = "MULTI" /\ Len(Identifiers(req)) = 0
ReferenceDefect(req) ==
    \E i \in 1..Len(Identifiers(req)) : Named(req, Identifiers(req)[i]) = {}

\* the number of defects of a write
Defects(req) ==
    Cardinality({d \in {"item", "type", "selection", "reference"} :
                   \/ d = "item" /\ ItemDefect(req)
                   \/ d = "type" /\ ~ItemDefect(req) /\ TypeDefect(req)
                   \/ d = "selection" /\ SelectionDefect(req)
                   \/ d = "reference" /\ ReferenceDefect(req)})

\* the error of the first validation step that fails, in the fixed order
FirstError(req) ==
    IF ItemDefect(req) THEN "ItemNotFound"
    ELSE IF TypeDefect(req) THEN "TypeMismatch"
    ELSE IF SelectionDefect(req) THEN "SelectionModeMismatch"
    ELSE IF ReferenceDefect(req) THEN "ReferenceNotFound"
    ELSE "none"

\* whether the call in progress of w is a setValue whose checks have run
Validated(w) ==
    /\ call[w].req.op \in {"primitive", "string", "codeset", "tax_single", "tax_multi",
                            "unified"}
    /\ pc[w] \notin {"idle", "validate"}

\* C22: a setValue with several defects reports the error of the first
\* failing step in the order ItemNotFound, TypeMismatch,
\* SelectionModeMismatch, ReferenceNotFound, and has written nothing.
C22_FirstDefectIsReported ==
    \A w \in Writers :
        (Validated(w) /\ Defects(call[w].req) >= 2)
        => /\ res[w].err = FirstError(call[w].req)
           /\ tx[w] = EmptyTx

\* the ids of the codes (terms) the payload of an accepted write references
StoredIds(req) ==
    LET obj == PayloadObj([payload |-> Plan(req).payload])
    IN  IF DeclaredType(req) = "CODESET" THEN <<obj.code_id>>
        ELSE [i \in 1..Len(obj.term_keys) |->
                EntityOf({t \in Term : t.term_key = obj.term_keys[i]}).term_id]

\* C24: in every setter an identifier is tried as an id and then as a key:
\* the id and the key of a code (term) are both accepted and store the same
\* reference; an identifier that is neither is refused with
\* ReferenceNotFound.
C24_ReferenceByIdOrKey ==
    \A w \in Writers :
        (/\ Validated(w)
         /\ Identifiers(call[w].req) # <<>>
         /\ FirstError(call[w].req) \in {"none", "ReferenceNotFound"})
        => IF ReferenceDefect(call[w].req)
           THEN res[w].err = "ReferenceNotFound"
           ELSE /\ Plan(call[w].req).err = "none"
                /\ \A i \in 1..Len(Identifiers(call[w].req)) :
                      StoredIds(call[w].req)[i] \in Named(call[w].req, Identifiers(call[w].req)[i])

RowEnsured(w) ==
    \/ <<"row", loc[w].value_id, w>> \in locks
    \/ \E r \in NewRows(db, tx[w]) : r.value_id = loc[w].value_id

\* the pointer of the entity row of the write of w, as w sees it
PointerSeen(w) ==
    {r.current_version_id : r \in {x \in View(db, tx[w]).rows : x.value_id = loc[w].value_id}}

\* the steps of the write of w so far have been taken in order
StepsInOrder(w) ==
    /\ pc[w] \in {"insert_version", "set_pointer"} => RowEnsured(w)
    /\ pc[w] \in {"next_no", "insert_version", "set_pointer"}
         => \A v \in View(db, tx[w]).vers :
               v.version_id = loc[w].current_version_id => v.valid_to # NoTime
    /\ pc[w] \in {"close_prev", "next_no"} => loc[w].version_no = 0
    /\ pc[w] \in {"insert_version", "set_pointer"} => loc[w].version_no >= 1
    /\ pc[w] \in {"close_prev", "next_no", "insert_version"}
         => /\ loc[w].version_id = NoId
            /\ \A v \in tx[w].vers : v.valid_to = NoTime => v.version_id \in VerIds(db.vers)
    /\ pc[w] \in {"close_prev", "next_no", "insert_version", "set_pointer"}
         => PointerSeen(w) = {loc[w].current_version_id}
    /\ pc[w] = "set_pointer" => loc[w].version_id \in VerIds(tx[w].vers)

\* C32: within one write the entity row is ensured, then the current
\* version closed, then the next number computed, then the new version
\* inserted, and last the pointer set, all in one unit of work; the number
\* is never computed before the row is locked or created, and no pointer
\* references a version that has not been inserted.
C32_StepsInOrder ==
    /\ \A w \in Writers : StepsInOrder(w)
    /\ \A w \in Writers : \A r \in View(db, tx[w]).rows :
          r.current_version_id # NoId
          => r.current_version_id \in VerIds(View(db, tx[w]).vers)

\* the close step of w finds no current version, or one already closed
NothingToClose(w) ==
    \/ loc[w].current_version_id = NoId
    \/ \A v \in View(db, tx[w]).vers :
          v.version_id = loc[w].current_version_id => v.valid_to # NoTime

\* C33: closing is idempotent: a close step that finds no current version,
\* or a current version whose valid_to is set, changes nothing; and a
\* committed valid_to is never overwritten by a later write.
C33_ClosingIsIdempotent ==
    [][/\ \A v \in db.vers : \A u \in db'.vers :
             (v.valid_to # NoTime /\ u.version_id = v.version_id)
             => u.valid_to = v.valid_to
       /\ \A w \in Writers :
             (pc[w] = "close_prev" /\ pc'[w] = "next_no" /\ NothingToClose(w))
             => View(db', tx'[w]) = View(db, tx[w])]_vars

\* a close step has met a current version that another write had closed
C33_Witness ==
    \E w \in Writers :
        /\ pc[w] = "next_no"
        /\ \E v \in db.vers :
              /\ v.version_id = loc[w].current_version_id
              /\ v.valid_to # NoTime
              /\ v \in tx[w].vers

\* C34: a writer never takes a for-update lock on a version row, only on
\* entity rows; and it changes the valid_to of the previously current
\* version only while it holds the lock on the entity row.
C34_OnlyEntityRowsLocked ==
    /\ \A l \in locks : l[1] = "row"
    /\ \A w \in Writers : \A v \in tx[w].vers :
          (\E u \in db.vers : u.version_id = v.version_id /\ u.valid_to # v.valid_to)
          => <<"row", v.value_id, w>> \in locks

\* C35: append-only: no step removes a committed entity row or version,
\* none sets a committed pointer back to null, and per entity the number of
\* committed versions never decreases.
C35_AppendOnly ==
    [][/\ RowIds(db.rows) \subseteq RowIds(db'.rows)
       /\ VerIds(db.vers) \subseteq VerIds(db'.vers)
       /\ \A r \in db.rows : \A q \in db'.rows :
             (q.value_id = r.value_id /\ r.current_version_id # NoId)
             => q.current_version_id # NoId
       /\ \A r \in db.rows :
             Cardinality(VersionsOf(db, r.value_id)) <= Cardinality(VersionsOf(db', r.value_id))]_vars

\* two entities have committed rows, one of them with two versions
C35_Witness ==
    /\ Cardinality(db.rows) >= 2
    /\ \E r \in db.rows : Cardinality(VersionsOf(db, r.value_id)) >= 2
    /\ \A r \in db.rows : r.current_version_id # NoId

\* C36: under fair scheduling every writer that started a write returns,
\* committed or failed: a writer waiting for a row lock goes on once the
\* holder's transaction ends, and the locks never form a cycle.
C36_EveryWriterReturns ==
    \A w \in Writers : (pc[w] # "idle") ~> (pc[w] = "idle")

\* one writer holds the lock on the entity row, the other waits for it
C36_Witness ==
    /\ pc["w2"] = "select_row"
    /\ \E r \in db.rows :
          /\ r.key = Plan(call["w2"].req).key
          /\ <<"row", r.value_id, "w1">> \in locks

\* the call in progress of w is a setter of MetaValueBusinessService
BusinessCall(w) == call[w].req.op = "biz_primitive"

KeyHolders(req, k) ==
    IF DeclaredType(req) = "CODESET"
    THEN {c.code_id : c \in {c \in Code : c.code_key = k}}
    ELSE {t.term_id : t \in {t \in Term : t.term_key = k}}

\* a CODESET or TAXONOMY write whose only identifiers are human keys that
\* exist, and that has no other defect
WriteByExistingKeys(req) ==
    /\ Identifiers(req) # <<>>
    /\ \A i \in 1..Len(Identifiers(req)) : KeyHolders(req, Identifiers(req)[i]) # {}
    /\ ~ItemDefect(req) /\ ~TypeDefect(req) /\ ~SelectionDefect(req)

\* C38: a CODESET or TAXONOMY write that names a human key existing in at
\* least one codeset (taxonomy) resolves the key and succeeds (it ends with
\* no error but a failure of the storage), also when two codesets
\* (taxonomies) hold the same key.
C38_ExistingKeyResolves ==
    \A w \in Writers :
        (Validated(w) /\ WriteByExistingKeys(call[w].req))
        => /\ Plan(call[w].req).err = "none"
           /\ res[w].err \in {"none", "StorageError", "IntegrityError"}

\* the body of the innermost wrapper call of f runs a statement in this step
BodyStatement(f) ==
    /\ stack[f] # <<>>
    /\ Top(f).kind = "tx"
    /\ ~Top(f).wrote
    /\ Len(stack'[f]) = Len(stack[f])
    /\ NewTop(f).wrote

\* C39: every statement of a @transactional method of
\* MetaValueBusinessService runs on the session the wrapper selected for the
\* call and on no other; for get_meta_values_for_target (read_only=True)
\* under a request session that is the session the wrapper created.
C39_BodyRunsOnSelectedSession ==
    [][\A f \in Flows :
          BodyStatement(f)
          => /\ sessions'[Top(f).session].staged
                  = sessions[Top(f).session].staged \cup {WriteOf(f, Top(f))}
             /\ \A s \in SessionIds \ {Top(f).session} :
                  sessions'[s].staged = sessions[s].staged]_vars

\* C40: the scopes are well nested.  A wrapper call of any propagation
\* leaves the frames of its caller as they are and remembers the session
\* the caller had; while a body runs the context holds the session the
\* wrapper selected; when the call is over, by return, error or
\* cancellation, the context holds the caller's session again.
C40_ScopesWellNested ==
    [][\A f \in Flows :
          /\ Entered(f)
             => /\ SubSeq(stack'[f], 1, Len(stack[f])) = stack[f]
                /\ NewTop(f).token = current[f]
                /\ current'[f] = NewTop(f).session
          /\ Exited(f)
             => /\ stack'[f] = SubSeq(stack[f], 1, Len(stack[f]) - 1)
                /\ current[f] = Top(f).session
                /\ current'[f] = Top(f).token]_vars

\* a requires_new call inside a request has committed its write and is
\* over; the context holds the request session again
C40_Witness ==
    \E f \in Flows :
        /\ mode[f] = "run"
        /\ Len(stack[f]) = 1
        /\ Top(f).kind = "request"
        /\ current[f] = Top(f).session
        /\ \E t \in committed : t.flow = f /\ t.depth = 2

====
